---------------------------- MODULE Spec2Model ----------------------------
(* Model of app.py: the Supabase data adapter with its fallback dataset,   *)
(* the row transformer, the decision grader, the key-play selection and    *)
(* the quota-limited Groq question gateway with the chat transcript.       *)
(*                                                                         *)
(* Representation.  Text is a TLA+ string.  A float column of the data     *)
(* frame is a record [nan, v] with v in thousandths (8 yards is 8000,      *)
(* -4.2 percent is -4200); an int column is a plain integer.  Python None  *)
(* in a TEXT column of the remote table is the sentinel string None.       *)
EXTENDS Integers, Sequences, FiniteSets, TLC

VARIABLES
    pc,              \* position of the script run: "start", "loaded", "graded", "rendered"
    fourth_downs,    \* the data frame: a sequence of rows
    escaped,         \* TRUE iff an exception left get_fourth_down_data
    origin,          \* what the call of get_fourth_down_data that filled the cache met
    cache,           \* st.cache_data entry of get_fourth_down_data: <<>> or <<df>>
    key_play,        \* the row picked for "The Key Play" panel (<<>> before it is picked)
    row,             \* the row handed to grade_decision
    label,           \* what grade_decision returned for row
    session_keys,    \* the keys present in st.session_state
    question_count,  \* st.session_state.question_count
    messages,        \* st.session_state.messages
    calls,           \* number of calls of get_ai_response made in the session
    dispatched,      \* number of calls that reached client.chat.completions.create
    last             \* the last call of get_ai_response: its inputs and its outcome

vars == <<pc, fourth_downs, escaped, origin, cache, key_play, row, label,
          session_keys, question_count, messages, calls, dispatched, last>>

dataVars == <<pc, fourth_downs, escaped, origin, cache, key_play>>
gradeVars == <<row, label>>
sessionVars == <<session_keys, question_count, messages, calls, dispatched, last>>

-----------------------------------------------------------------------------
(* Numbers and text *)

None == "~None"

Milli(n) == n * 1000

Num(n) == [nan |-> FALSE, v |-> n]

NaN == [nan |-> TRUE, v |-> 0]

Min(a, b) == IF a <= b THEN a ELSE b

Digits == <<"0", "1", "2", "3", "4", "5", "6", "7", "8", "9">>

IsDigit(c) == \E d \in 1..Len(Digits) : Digits[d] = c

DigitValue(c) == (CHOOSE d \in 1..Len(Digits) : Digits[d] = c) - 1

CharAt(s, i) == SubSeq(s, i, i)

AllDigits(s) == Len(s) > 0 /\ \A i \in 1..Len(s) : IsDigit(CharAt(s, i))

RECURSIVE DigitsValue(_)
DigitsValue(s) ==
    IF Len(s) = 0 THEN 0
    ELSE 10 * DigitsValue(SubSeq(s, 1, Len(s) - 1)) + DigitValue(CharAt(s, Len(s)))

\* position of the first decimal point of s, 0 when it has none
DotAt(s) ==
    IF \E i \in 1..Len(s) : CharAt(s, i) = "."
    THEN CHOOSE i \in 1..Len(s) : CharAt(s, i) = "." /\ \A j \in 1..(i - 1) : CharAt(s, j) # "."
    ELSE 0

\* the weight in thousandths of a fraction of k digits
FractionScale(k) == IF k = 1 THEN 100 ELSE IF k = 2 THEN 10 ELSE 1

\* "whole.frac" with at most 3 decimals, in thousandths
ParseFraction(whole, frac) ==
    IF AllDigits(whole) /\ AllDigits(frac) /\ Len(frac) <= 3
    THEN Num(Milli(DigitsValue(whole)) + DigitsValue(frac) * FractionScale(Len(frac)))
    ELSE NaN

\* an unsigned decimal whose decimal point is at dot
ParseUnsigned(s, dot) ==
    IF dot = 0
    THEN IF AllDigits(s) THEN Num(Milli(DigitsValue(s))) ELSE NaN
    ELSE ParseFraction(SubSeq(s, 1, dot - 1), SubSeq(s, dot + 1, Len(s)))

Negated(x) == IF x.nan THEN NaN ELSE Num(0 - x.v)

\* pd.to_numeric(column, errors='coerce') on one cell: text that is not a
\* number, and None, become NaN
to_numeric(s) ==
    IF Len(s) > 1 /\ CharAt(s, 1) = "-"
    THEN Negated(ParseUnsigned(SubSeq(s, 2, Len(s)), DotAt(SubSeq(s, 2, Len(s)))))
    ELSE ParseUnsigned(s, DotAt(s))

\* .fillna(0).astype(int) on one cell: NaN becomes 0, a float is truncated
\* toward zero
fillna0_astype_int(x) ==
    IF x.nan THEN 0
    ELSE IF x.v >= 0 THEN x.v \div 1000 ELSE 0 - ((0 - x.v) \div 1000)

\* column * 100 on one cell
times100(x) == IF x.nan THEN NaN ELSE Num(x.v * 100)

\* .fillna('') on one cell of a TEXT column
fillna_empty(s) == IF s = None THEN "" ELSE s

\* comparisons of a float cell with an integer literal; with NaN both are False
FloatLe(x, n) == ~x.nan /\ x.v <= Milli(n)

FloatLt(x, n) == ~x.nan /\ x.v < Milli(n)

-----------------------------------------------------------------------------
(* Decision grader *)

TERRIBLE == "TERRIBLE"
BAD == "BAD"
QUESTIONABLE == "QUESTIONABLE"
OK == "OK"

GradeLabels == {TERRIBLE, BAD, QUESTIONABLE, OK}

grade_decisionIgnoresPunt(r) ==
    IF FloatLe(r.YARDS_TO_GO, 1) /\ r.SCORE_DIFFERENTIAL <= -10 THEN TERRIBLE
    ELSE IF FloatLe(r.YARDS_TO_GO, 2) /\ r.SCORE_DIFFERENTIAL <= -7 THEN BAD
    ELSE IF FloatLe(r.YARDS_TO_GO, 4) /\ r.SCORE_DIFFERENTIAL <= -9 THEN QUESTIONABLE
    ELSE IF FloatLt(r.WPA_PCT, -3) THEN QUESTIONABLE
    ELSE OK

grade_decisionBadFirst(r) ==
    IF r.PUNT_ATTEMPT
    THEN IF FloatLe(r.YARDS_TO_GO, 2) /\ r.SCORE_DIFFERENTIAL <= -7 THEN BAD
         ELSE IF FloatLe(r.YARDS_TO_GO, 1) /\ r.SCORE_DIFFERENTIAL <= -10 THEN TERRIBLE
         ELSE IF FloatLe(r.YARDS_TO_GO, 4) /\ r.SCORE_DIFFERENTIAL <= -9 THEN QUESTIONABLE
         ELSE IF FloatLt(r.WPA_PCT, -3) THEN QUESTIONABLE
         ELSE OK
    ELSE OK

grade_decision(r) ==
    IF r.PUNT_ATTEMPT
    THEN IF FloatLe(r.YARDS_TO_GO, 1) /\ r.SCORE_DIFFERENTIAL <= -10 THEN TERRIBLE
         ELSE IF FloatLe(r.YARDS_TO_GO, 2) /\ r.SCORE_DIFFERENTIAL <= -7 THEN BAD
         ELSE IF FloatLe(r.YARDS_TO_GO, 4) /\ r.SCORE_DIFFERENTIAL <= -9 THEN QUESTIONABLE
         ELSE IF FloatLt(r.WPA_PCT, -3) THEN QUESTIONABLE
         ELSE OK
    ELSE OK

-----------------------------------------------------------------------------
(* Data source adapter and row transformer *)

MaxRows == 2

FallbackRow(q, t, ytg, fp, ne, sea, diff, wp, wpa, epa, desc) ==
    [QUARTER |-> Num(Milli(q)), TIME |-> t, YARDS_TO_GO |-> Num(Milli(ytg)),
     FIELD_POSITION |-> fp, NE_SCORE |-> ne, SEA_SCORE |-> sea,
     SCORE_DIFFERENTIAL |-> diff, PLAY_TYPE |-> "punt",
     WIN_PROB_PCT |-> Num(wp), WPA_PCT |-> Num(wpa), EPA |-> Num(epa),
     PUNT_ATTEMPT |-> TRUE, PLAY_DESCRIPTION |-> desc]

get_fallback_data ==
    << FallbackRow(1, "10:23", 8, "SEA 44", 0, 3, -3, 38000, -3000, -500,
                   "Punt to SEA 20"),
       FallbackRow(1, "5:45", 15, "NE 35", 0, 3, -3, 35000, -2000, -300,
                   "Punt downed at SEA 15"),
       FallbackRow(2, "9:30", 17, "NE 28", 0, 6, -6, 25000, -3000, -400,
                   "Punt to SEA 25"),
       FallbackRow(2, "2:15", 6, "SEA 38", 0, 6, -6, 22000, -2500, -600,
                   "Punt into end zone, touchback"),
       FallbackRow(3, "8:40", 1, "OWN 41", 0, 12, -12, 12000, -4200, -800,
                   "4th & 1 PUNT from own 41 - THE KEY PLAY"),
       FallbackRow(3, "2:30", 8, "NE 23", 0, 12, -12, 8000, -2000, -300,
                   "Punt to SEA 45"),
       FallbackRow(4, "12:05", 11, "NE 19", 6, 19, -13, 5000, -1500, -200,
                   "Punt to SEA 35"),
       FallbackRow(4, "5:20", 4, "SEA 48", 13, 22, -9, 6000, -3000, -700,
                   "Punt with 5 min left, down 9") >>

\* the columns of play_by_play_2025 the query selects and the transformer reads
ReadColumns == {"qtr", "ydstogo", "posteam_score", "defteam_score", "wp", "wpa",
                "epa", "play_type", "side_of_field", "yardline_100"}

\* get_supabase_client: the client, or None when the import, the secrets
\* lookup or create_client raised
get_supabase_client(setup) == IF setup = "ok" THEN "client" ELSE None

PuntFlagAlwaysTrue(r) == TRUE

\* df['PUNT_ATTEMPT'] = df['PLAY_TYPE'] == 'punt', on one row
PuntFlag(r) == r.play_type = "punt"

\* the columns of a transformed row, NE_SCORE and SEA_SCORE being coerced
Columns(r, NE_SCORE, SEA_SCORE) ==
    [QUARTER |-> to_numeric(r.qtr),
     YARDS_TO_GO |-> to_numeric(r.ydstogo),
     NE_SCORE |-> NE_SCORE,
     SEA_SCORE |-> SEA_SCORE,
     WIN_PROB_PCT |-> times100(to_numeric(r.wp)),
     WPA_PCT |-> times100(to_numeric(r.wpa)),
     EPA |-> to_numeric(r.epa),
     PLAY_TYPE |-> r.play_type,
     SIDE_OF_FIELD |-> r.side_of_field,
     YARDLINE_100 |-> r.yardline_100,
     SCORE_DIFFERENTIAL |-> NE_SCORE - SEA_SCORE,
     FIELD_POSITION |-> fillna_empty(r.side_of_field) \o " "
                            \o fillna_empty(r.yardline_100),
     PUNT_ATTEMPT |-> PuntFlag(r)]

\* the description column, renamed when the response has it
Described(r) ==
    IF "desc" \in DOMAIN r THEN [PLAY_DESCRIPTION |-> r.desc] ELSE <<>>

\* the renaming, the numeric coercions and the derived columns, on one row
\* that has every column of ReadColumns
TransformRow(r) ==
    Columns(r, fillna0_astype_int(to_numeric(r.posteam_score)),
               fillna0_astype_int(to_numeric(r.defteam_score))) @@ Described(r)

\* the body of "if response.data:": a KeyError when a column the transformer
\* reads is not in the response, else the transformed frame
Transform(data) ==
    IF \E i \in 1..Len(data) : ~(ReadColumns \subseteq DOMAIN data[i])
    THEN [exc |-> TRUE, df |-> <<>>]
    ELSE [exc |-> FALSE, df |-> [i \in 1..Len(data) |-> TransformRow(data[i])]]

\* what the try block does with the outcome t of the transformation
Transformed(t) ==
    IF t.exc
    THEN [kind |-> "exception", df |-> <<>>, path |-> "transform_raised"]
    ELSE [kind |-> "return", df |-> t.df, path |-> "fetched"]

\* the try block of get_fourth_down_data: "return" with the frame,
\* "exception" when the query or the transformation raised, "fallthrough"
\* when there is no client or response.data is empty
TryFetch(setup, net, data) ==
    IF get_supabase_client(setup) = None
    THEN [kind |-> "fallthrough", df |-> <<>>, path |-> "no_client"]
    ELSE IF net = "throws"
    THEN [kind |-> "exception", df |-> <<>>, path |-> "query_raised"]
    ELSE IF Len(data) = 0
    THEN [kind |-> "fallthrough", df |-> <<>>, path |-> "no_rows"]
    ELSE Transformed(Transform(data))

OrFallbackUnlessEmpty(t) ==
    IF t.kind = "return" \/ t.path = "no_rows"
    THEN [raised |-> FALSE, df |-> t.df, path |-> t.path]
    ELSE [raised |-> FALSE, df |-> get_fallback_data, path |-> t.path]

\* "except Exception" absorbs every exception of the try block t, and every
\* path but the return inside it ends in "return get_fallback_data()"
OrFallback(t) ==
    IF t.kind = "return"
    THEN [raised |-> FALSE, df |-> t.df, path |-> t.path]
    ELSE [raised |-> FALSE, df |-> get_fallback_data, path |-> t.path]

get_fourth_down_data(setup, net, data) == OrFallback(TryFetch(setup, net, data))

\* fourth_downs.apply(grade_decision, axis=1) stored as the GRADE column
WithGrades(df) == [i \in 1..Len(df) |-> df[i] @@ [GRADE |-> grade_decision(df[i])]]

SmallestFlipped(df, known) ==
    df[CHOOSE i \in known :
          \A j \in known : df[i].YARDS_TO_GO.v >= df[j].YARDS_TO_GO.v].YARDS_TO_GO

\* the smallest of the YARDS_TO_GO cells at the indexes known
Smallest(df, known) ==
    df[CHOOSE i \in known :
          \A j \in known : df[i].YARDS_TO_GO.v <= df[j].YARDS_TO_GO.v].YARDS_TO_GO

\* YARDS_TO_GO.min(): NaN cells are skipped; NaN when every cell is NaN
MinYards(df) ==
    IF \A i \in 1..Len(df) : df[i].YARDS_TO_GO.nan
    THEN NaN
    ELSE Smallest(df, {i \in 1..Len(df) : ~df[i].YARDS_TO_GO.nan})

\* fourth_downs['YARDS_TO_GO'] == m, as the set of indexes it selects
RowsAt(df, m) == {i \in 1..Len(df) : ~m.nan /\ df[i].YARDS_TO_GO = m}

FirstOf(hits) == IF hits = {} THEN 0 ELSE CHOOSE i \in hits : \A j \in hits : i <= j

\* the index of key_play_df.iloc[0] in fourth_downs, 0 when key_play_df is empty
KeyPlayIndex(df) == FirstOf(RowsAt(df, MinYards(df)))

(* the remote responses tried *)
Setups == {"ok", "import_error", "no_secrets", "create_error"}

Nets == {"ok", "throws"}

RawYards == {"1", "4", "x"}

\* the two scores and the wpa cell of a row
RawScoring == {<<"0", "12", "-0.042">>, <<None, "7", None>>}

RawPlayTypes == {"punt", "run", None}

RawRow(ytg, sc, pt) ==
    [qtr |-> "3", ydstogo |-> ytg, posteam_score |-> sc[1], defteam_score |-> sc[2],
     wp |-> "0.12", wpa |-> sc[3], epa |-> "-0.8", play_type |-> pt,
     desc |-> "punts", side_of_field |-> "NE", yardline_100 |-> "59"]

RawRows == {RawRow(ytg, sc, pt) : ytg \in RawYards, sc \in RawScoring, pt \in RawPlayTypes}

Without(r, c) == [k \in (DOMAIN r) \ {c} |-> r[k]]

RECURSIVE SeqsUpTo(_, _)
SeqsUpTo(S, n) ==
    IF n = 0 THEN {<<>>}
    ELSE LET shorter == SeqsUpTo(S, n - 1)
         IN  shorter \cup {Append(s, x) : s \in {t \in shorter : Len(t) = n - 1}, x \in S}

\* a response with every selected column, or one in which the table lacks a column
Responses ==
    LET full == SeqsUpTo(RawRows, MaxRows)
    IN  full \cup {[i \in 1..Len(d) |-> Without(d[i], c)] :
                       d \in full \ {<<>>}, c \in {"desc", "play_type"}}

-----------------------------------------------------------------------------
(* One run of the script over the data: load, grade, pick the key play *)

NoRow == [QUARTER |-> NaN, YARDS_TO_GO |-> NaN, SCORE_DIFFERENTIAL |-> 0,
          WPA_PCT |-> NaN, PUNT_ATTEMPT |-> FALSE]

NoOrigin == [path |-> "none", client |-> FALSE, net |-> "ok", rows |-> 0]

DataIdle ==
    /\ pc = "start" /\ fourth_downs = <<>> /\ escaped = FALSE
    /\ origin = NoOrigin /\ cache = <<>> /\ key_play = <<>>

GradeIdle == row = NoRow /\ label = "none"

\* the script after get_fourth_down_data() ended as r; origin keeps what the
\* call met: the path taken, whether there was a client, whether the query
\* raised, and the number of rows of the response
Loaded(r, setup, net, data) ==
    /\ fourth_downs' = r.df
    /\ escaped' = r.raised
    /\ origin' = [path |-> r.path, client |-> setup = "ok", net |-> net,
                  rows |-> Len(data)]
    /\ cache' = IF r.raised THEN <<>> ELSE <<r.df>>
    /\ pc' = IF r.raised THEN "crashed" ELSE "loaded"

\* fourth_downs = get_fourth_down_data(), the cache holding no entry
LoadData ==
    /\ pc = "start" /\ cache = <<>>
    /\ \E setup \in Setups, net \in Nets, data \in Responses :
          Loaded(get_fourth_down_data(setup, net, data), setup, net, data)
    /\ UNCHANGED <<key_play, gradeVars, sessionVars>>

\* fourth_downs = get_fourth_down_data(), served by st.cache_data within its ttl
LoadCached ==
    /\ pc = "start" /\ cache # <<>>
    /\ fourth_downs' = cache[1]
    /\ pc' = "loaded"
    /\ UNCHANGED <<escaped, origin, cache, key_play, gradeVars, sessionVars>>

\* the ttl of the cache entry runs out between two runs
Expire ==
    /\ pc = "start" /\ cache # <<>>
    /\ cache' = <<>>
    /\ origin' = NoOrigin
    /\ UNCHANGED <<pc, fourth_downs, escaped, key_play, gradeVars, sessionVars>>

\* fourth_downs['GRADE'] = fourth_downs.apply(grade_decision, axis=1)
GradeRows ==
    /\ pc = "loaded"
    /\ fourth_downs' = WithGrades(fourth_downs)
    /\ pc' = "graded"
    /\ UNCHANGED <<escaped, origin, cache, key_play, gradeVars, sessionVars>>

\* the row at index i of fourth_downs, as the key play
Picked(i) == IF i = 0 THEN <<>> ELSE <<fourth_downs[i]>>

\* key_play_df = rows with the minimum YARDS_TO_GO; key_play = key_play_df.iloc[0]
SelectKeyPlay ==
    /\ pc = "graded"
    /\ key_play' = Picked(KeyPlayIndex(fourth_downs))
    /\ pc' = "rendered"
    /\ UNCHANGED <<fourth_downs, escaped, origin, cache, gradeVars, sessionVars>>

\* the next run of the script
Rerun ==
    /\ pc = "rendered"
    /\ pc' = "start"
    /\ fourth_downs' = <<>>
    /\ key_play' = <<>>
    /\ UNCHANGED <<escaped, origin, cache, gradeVars, sessionVars>>

(* grade_decision applied to one row *)
MaxYards == 5
MaxDeficit == 13
MaxLead == 1

WpaValues == {NaN, Num(-4200), Num(-3001), Num(-3000), Num(-2000), Num(0)}

GradeInputs ==
    {[QUARTER |-> Num(Milli(3)), YARDS_TO_GO |-> y, SCORE_DIFFERENTIAL |-> d,
      WPA_PCT |-> w, PUNT_ATTEMPT |-> p] :
        y \in {NaN} \cup {Num(Milli(n)) : n \in 0..MaxYards},
        d \in (0 - MaxDeficit)..MaxLead,
        w \in WpaValues,
        p \in BOOLEAN}

ApplyGrade ==
    /\ label = "none"
    /\ label' = grade_decision(row)
    /\ UNCHANGED <<row, dataVars, sessionVars>>

-----------------------------------------------------------------------------
(* Question gateway *)

QuestionLimit == 10

ErrorChars == 150

\* the two fixed replies, without their leading warning sign
LimitMessage ==
    "You've reached the limit of 10 questions per session. Refresh the page to start a new session."

NotConfiguredMessage ==
    "Groq API key not configured. Add GROQ_API_KEY to your Streamlit secrets."

ErrorPrefix == "Error: "

\* a text of n characters
RECURSIVE Pad(_)
Pad(n) ==
    IF n = 0 THEN ""
    ELSE Pad(n \div 2) \o Pad(n \div 2) \o (IF n % 2 = 1 THEN "x" ELSE "")

\* Python truthiness of a secrets value: None and '' are falsy
Truthy(s) == s # None /\ s # ""

\* st.secrets.get("GROQ_API_KEY") or st.secrets.get("groq", {}).get("api_key")
ApiKey(secrets) ==
    IF Truthy(secrets.GROQ_API_KEY) THEN secrets.GROQ_API_KEY ELSE secrets.groq_api_key

TruncateNone(e) == e

\* str(e)[:150]
Truncate(e) == SubSeq(e, 1, Min(Len(e), ErrorChars))

\* the try block of get_ai_response: the text it returns or, with exc, the
\* text of the exception it raises, and whether
\* client.chat.completions.create was called.  The import of groq raises
\* when the package is missing, and st.secrets.get raises when no secrets
\* file can be read.
TryDispatch(env) ==
    IF ~env.groq_import
    THEN [exc |-> TRUE, text |-> "No module named 'groq'", kind |-> "import_error",
          dispatched |-> FALSE]
    ELSE IF ~env.secrets.readable
    THEN [exc |-> TRUE, text |-> "No secrets files found. Valid paths for a secrets.toml file are: /root/.streamlit/secrets.toml, /mount/src/nflanalytics/.streamlit/secrets.toml",
          kind |-> "secrets_unreadable", dispatched |-> FALSE]
    ELSE IF ~Truthy(ApiKey(env.secrets))
    THEN [exc |-> FALSE, text |-> NotConfiguredMessage, kind |-> "not_configured",
          dispatched |-> FALSE]
    ELSE IF env.service.kind = "raises"
    THEN [exc |-> TRUE, text |-> env.service.text, kind |-> "dispatch_failed",
          dispatched |-> TRUE]
    ELSE IF env.service.kind = "no_choices"
    THEN [exc |-> TRUE, text |-> "list index out of range", kind |-> "dispatch_failed",
          dispatched |-> TRUE]
    ELSE [exc |-> FALSE, text |-> env.service.text, kind |-> "answered",
          dispatched |-> TRUE]

\* try: ... except Exception as e: return f"Error: {str(e)[:150]}"
\* (error keeps the text of the exception, "" when there was none)
Guarded(t) ==
    IF t.exc
    THEN [ret |-> ErrorPrefix \o Truncate(t.text), kind |-> t.kind, raised |-> FALSE,
          dispatched |-> t.dispatched, error |-> t.text]
    ELSE [ret |-> t.text, kind |-> t.kind, raised |-> FALSE,
          dispatched |-> t.dispatched, error |-> ""]

AtLimitOffByOne(count) == count > QuestionLimit

\* if st.session_state.question_count >= 10
AtLimit(count) == count >= QuestionLimit

NotIncremented(count) == count

\* st.session_state.question_count += 1
Incremented(count) == count + 1

\* the call once question_count is known to be in the session state as before
Answer(before, g) ==
    IF AtLimit(before)
    THEN [ret |-> LimitMessage, kind |-> "limit", raised |-> FALSE,
          dispatched |-> FALSE, error |-> "", before |-> before, after |-> before]
    ELSE g @@ [before |-> before, after |-> Incremented(before)]

\* get_ai_response(question, fourth_downs_df) in a session whose state holds
\* keys and count: the returned text, the counter before and after, and
\* whether the completion service was called
get_ai_response(keys, count, question, env) ==
    Answer(IF "question_count" \in keys THEN count ELSE 0, Guarded(TryDispatch(env)))

\* 10 - st.session_state.get('question_count', 0), the caption's "questions left"
QuestionsLeft ==
    QuestionLimit - (IF "question_count" \in session_keys THEN question_count ELSE 0)

(* the environments and questions tried *)
MaxCalls == 12

Secrets(readable, top, nested) ==
    [readable |-> readable, GROQ_API_KEY |-> top, groq_api_key |-> nested]

KeyedSecrets ==
    {Secrets(TRUE, "gsk_top", None), Secrets(TRUE, None, "gsk_nested"),
     Secrets(TRUE, "", "gsk_nested")}

KeylessSecrets == {Secrets(TRUE, None, None), Secrets(TRUE, "", None)}

UnreadableSecrets == Secrets(FALSE, None, None)

Services ==
    {[kind |-> "answer", text |-> "Punting on 4th & 1 was the worst call."],
     [kind |-> "no_choices", text |-> ""],
     [kind |-> "raises", text |-> "Connection error."],
     [kind |-> "raises", text |-> Pad(ErrorChars)],
     [kind |-> "raises", text |-> Pad(ErrorChars + 1)],
     [kind |-> "raises", text |-> Pad(2 * ErrorChars)]}

Env(imp, sec, svc) == [groq_import |-> imp, secrets |-> sec, service |-> svc]

Envs ==
    {Env(FALSE, sec, svc) : sec \in {Secrets(TRUE, "gsk_top", None)},
                            svc \in {s \in Services : s.kind = "answer"}}
    \cup {Env(TRUE, sec, svc) : sec \in KeylessSecrets \cup {UnreadableSecrets},
                                svc \in {s \in Services : s.kind = "answer"}}
    \cup {Env(TRUE, sec, svc) : sec \in KeyedSecrets, svc \in Services}

Example1 == "What was the worst 4th down decision and why?"

Example2 == "Should the Patriots have gone for it on 4th & 1?"

Typed == "Why punt on 4th & 1?"

NoEnv == Env(TRUE, Secrets(TRUE, None, None), [kind |-> "answer", text |-> ""])

NoLast == [ret |-> "", kind |-> "none", raised |-> FALSE, dispatched |-> FALSE,
           error |-> "", before |-> 0, after |-> 0, question |-> "", env |-> NoEnv]

SessionIdle ==
    /\ session_keys = {} /\ question_count = 0 /\ messages = <<>>
    /\ calls = 0 /\ dispatched = 0 /\ last = NoLast

\* the session state after the call r of get_ai_response(question, ...) under env
Called(r, question, env) ==
    /\ question_count' = r.after
    /\ calls' = calls + 1
    /\ dispatched' = dispatched + (IF r.dispatched THEN 1 ELSE 0)
    /\ last' = r @@ [question |-> question, env |-> env]

\* one call get_ai_response(question, fourth_downs)
Ask ==
    /\ calls < MaxCalls
    /\ \E question \in {Typed, Example1}, env \in Envs :
          Called(get_ai_response(session_keys, question_count, question, env),
                 question, env)
    /\ session_keys' = session_keys \cup {"question_count"}
    /\ UNCHANGED <<messages, dataVars, gradeVars>>

-----------------------------------------------------------------------------
(* Chat panel of the Overview tab *)

MaxRuns == 11

Message(role, content) == [role |-> role, content |-> content]

\* what the user did before this run of the script: clicked the first or the
\* second example button, or sent typed text (None when nothing was typed)
Input(b1, b2, typed) == [button1 |-> b1, button2 |-> b2, typed |-> typed]

\* st.session_state.pending_question after the two buttons, None when unset
PendingQuestion(input) ==
    IF input.button2 THEN Example2
    ELSE IF input.button1 THEN Example1
    ELSE None

\* the question of this run: the pending question when there is one, else
\* the chat input
QuestionOf(input) ==
    IF PendingQuestion(input) # None THEN PendingQuestion(input) ELSE input.typed

AppendedAnswerOnly(history, question, response) ==
    Append(history, Message("assistant", response))

\* the two appends around the call of get_ai_response
Appended(history, question, response) ==
    Append(Append(history, Message("user", question)), Message("assistant", response))

\* the submissions tried: typed text answered by the service, the first
\* example button with the service failing, the second example button with
\* no credential in the secrets
ChatCases ==
    {[input |-> Input(FALSE, FALSE, Typed),
      env |-> Env(TRUE, Secrets(TRUE, "gsk_top", None),
                  [kind |-> "answer", text |-> "Punting on 4th & 1 was the worst call."])],
     [input |-> Input(TRUE, FALSE, None),
      env |-> Env(TRUE, Secrets(TRUE, None, "gsk_nested"),
                  [kind |-> "raises", text |-> "Connection error."])],
     [input |-> Input(FALSE, TRUE, None),
      env |-> Env(TRUE, Secrets(TRUE, None, None),
                  [kind |-> "answer", text |-> "Punting on 4th & 1 was the worst call."])]}

\* the run from the first append on, the call having ended as r
Submitted(r, question, env) ==
    /\ Called(r, question, env)
    /\ messages' = Appended(messages, question, r.ret)
    /\ session_keys' = session_keys \cup {"messages", "question_count"}

\* a run of the script in which the user submitted a question: both appends,
\* the call of get_ai_response between them, then st.rerun()
ChatSubmit ==
    /\ calls < MaxRuns
    /\ \E c \in ChatCases :
          /\ QuestionOf(c.input) # None
          /\ Submitted(get_ai_response(session_keys, question_count,
                                       QuestionOf(c.input), c.env),
                       QuestionOf(c.input), c.env)
    /\ UNCHANGED <<dataVars, gradeVars>>

\* a run of the script with no question: only the messages list is created
ChatIdle ==
    /\ "messages" \notin session_keys
    /\ session_keys' = session_keys \cup {"messages"}
    /\ messages' = <<>>
    /\ UNCHANGED <<question_count, calls, dispatched, last, dataVars, gradeVars>>

-----------------------------------------------------------------------------
(* Specifications *)

\* calls of get_ai_response in one session
Init == DataIdle /\ GradeIdle /\ SessionIdle

Next == Ask

Spec == Init /\ [][Next]_vars

\* the chat panel over one session
NextChat == ChatSubmit \/ ChatIdle

SpecChat == Init /\ [][NextChat]_vars

\* script runs over the data
NextData == LoadData \/ LoadCached \/ Expire \/ GradeRows \/ SelectKeyPlay \/ Rerun

SpecData == Init /\ [][NextData]_vars

\* grade_decision over one row
InitGrade == DataIdle /\ SessionIdle /\ row \in GradeInputs /\ label = "none"

NextGrade == ApplyGrade

SpecGrade == InitGrade /\ [][NextGrade]_vars

-----------------------------------------------------------------------------
(* Properties *)

IsCall == calls' = calls + 1

\* C1: once question_count has reached 10, a call of get_ai_response returns
\* the limit message, calls the completion service not at all and leaves
\* question_count as it is; and question_count never exceeds 10.
C1_QuotaHolds ==
    /\ [](question_count <= QuestionLimit)
    /\ [][(IsCall /\ question_count >= QuestionLimit) =>
            /\ last'.ret = LimitMessage
            /\ ~last'.dispatched
            /\ dispatched' = dispatched
            /\ question_count' = question_count]_vars

C1_Witness ==
    /\ calls > QuestionLimit + 1
    /\ question_count = QuestionLimit
    /\ last.ret = LimitMessage

\* C2: a call below the quota whose dispatch to the completion service raises
\* returns, without raising, "Error: " followed by the first 150 characters
\* of the error text (the whole text when it is shorter), and leaves
\* question_count exactly one higher than it found it.
C2_DispatchFailureIsReported ==
    [][(IsCall /\ last'.kind = "dispatch_failed") =>
          /\ ~last'.raised
          /\ question_count < QuestionLimit
          /\ question_count' = question_count + 1
          /\ SubSeq(last'.ret, 1, Len(ErrorPrefix)) = ErrorPrefix
          /\ Len(last'.ret) = Len(ErrorPrefix) + Min(Len(last'.error), ErrorChars)
          /\ SubSeq(last'.ret, Len(ErrorPrefix) + 1, Len(last'.ret))
                = SubSeq(last'.error, 1, Len(last'.ret) - Len(ErrorPrefix))
          /\ Len(last'.ret) <= Len(ErrorPrefix) + ErrorChars]_vars

C2_Witness ==
    /\ last.kind = "dispatch_failed"
    /\ last.env.service.kind = "raises"
    /\ Len(last.error) > ErrorChars
    /\ Len(last.ret) = Len(ErrorPrefix) + ErrorChars
    /\ question_count = last.before + 1

\* the secrets hold no credential, or cannot be read at all
CredentialAbsent(secrets) ==
    \/ ~secrets.readable
    \/ (~Truthy(secrets.GROQ_API_KEY) /\ ~Truthy(secrets.groq_api_key))

\* C3: a call below the quota made while the credential is absent, the
\* unreadable secrets store included, returns the "not configured" message,
\* calls the completion service not at all and raises nothing.
C3_AbsentCredentialNotConfigured ==
    (/\ last.kind \notin {"none", "limit"}
     /\ last.env.groq_import
     /\ CredentialAbsent(last.env.secrets))
    => (/\ last.ret = NotConfiguredMessage
        /\ ~last.dispatched
        /\ ~last.raised)

\* C10: question_count never decreases and grows by at most 1 per call;
\* after k calls it is min(k, 10), whatever became of each call; the calls
\* dispatched are at most question_count; "questions left" is in 0..10.
C10_CounterFollowsCalls ==
    /\ [](/\ question_count = Min(calls, QuestionLimit)
          /\ dispatched <= question_count
          /\ QuestionsLeft \in 0..QuestionLimit)
    /\ [][/\ question_count' >= question_count
          /\ question_count' <= question_count + 1]_vars

C10_Witness ==
    /\ calls > QuestionLimit
    /\ question_count = QuestionLimit
    /\ dispatched < question_count
    /\ dispatched > 0
    /\ QuestionsLeft = 0

\* the ordered rule table of the grader: the largest yards to go and the
\* largest score differential of each rule, and its label
RuleTable ==
    << [yards |-> 1, diff |-> -10, grade |-> TERRIBLE],
       [yards |-> 2, diff |-> -7, grade |-> BAD],
       [yards |-> 4, diff |-> -9, grade |-> QUESTIONABLE] >>

WpaRule == Len(RuleTable) + 1

Satisfies(r, k) ==
    /\ r.PUNT_ATTEMPT
    /\ IF k = WpaRule
       THEN ~r.WPA_PCT.nan /\ r.WPA_PCT.v < -3000
       ELSE /\ ~r.YARDS_TO_GO.nan
            /\ r.YARDS_TO_GO.v <= 1000 * RuleTable[k].yards
            /\ r.SCORE_DIFFERENTIAL <= RuleTable[k].diff

FirstRuleLabel(r) ==
    IF \E k \in 1..WpaRule : Satisfies(r, k)
    THEN IF (CHOOSE k \in 1..WpaRule :
                Satisfies(r, k) /\ \A j \in 1..(k - 1) : ~Satisfies(r, j)) = WpaRule
         THEN QUESTIONABLE
         ELSE RuleTable[CHOOSE k \in 1..Len(RuleTable) :
                  Satisfies(r, k) /\ \A j \in 1..(k - 1) : ~Satisfies(r, j)].grade
    ELSE OK

\* C4: grade_decision returns the label of the first satisfied rule of the
\* ordered table, OK when none is satisfied; a punt with 1 yard to go at -10
\* is TERRIBLE; the label is always one of the four.
C4_FirstRuleWins ==
    label # "none" =>
        /\ label = FirstRuleLabel(row)
        /\ label \in GradeLabels
        /\ (/\ row.PUNT_ATTEMPT
            /\ row.YARDS_TO_GO = Num(1000)
            /\ row.SCORE_DIFFERENTIAL = -10) => label = TERRIBLE

C4_Witness ==
    /\ label = TERRIBLE
    /\ row.PUNT_ATTEMPT
    /\ row.YARDS_TO_GO = Num(1000)
    /\ row.SCORE_DIFFERENTIAL = -10
    /\ Satisfies(row, 2) /\ Satisfies(row, 3)

\* C5: a row whose punt-attempt flag is false is graded OK whatever its
\* other fields.
C5_NonPuntIsOK == (label # "none" /\ ~row.PUNT_ATTEMPT) => label = OK

C5_Witness ==
    /\ label = OK
    /\ ~row.PUNT_ATTEMPT
    /\ row.YARDS_TO_GO = Num(1000)
    /\ row.SCORE_DIFFERENTIAL <= -10
    /\ row.WPA_PCT = Num(-4200)

\* the call of get_fourth_down_data recorded in origin had no client, or its
\* query raised, or its response had no rows, or the transformation raised
FetchFailed ==
    \/ ~origin.client
    \/ origin.net = "throws"
    \/ origin.rows = 0
    \/ origin.path = "transform_raised"

\* C6: get_fourth_down_data raises nothing and returns no empty dataset; when
\* there is no client, the query raises, the response has no rows or the
\* transformation raises, it returns the fallback sequence of 8 records
\* whose first has quarter 1, 8 yards to go and field position "SEA 44";
\* otherwise it returns one row per row of the response.
C6_FallbackOnFailure ==
    /\ ~escaped /\ pc # "crashed"
    /\ pc = "loaded" =>
          /\ Len(fourth_downs) > 0
          /\ FetchFailed =>
                /\ fourth_downs = get_fallback_data
                /\ Len(fourth_downs) = 8
                /\ fourth_downs[1].QUARTER = Num(1000)
                /\ fourth_downs[1].YARDS_TO_GO = Num(8000)
                /\ fourth_downs[1].FIELD_POSITION = "SEA 44"
          /\ ~FetchFailed =>
                /\ origin.path = "fetched"
                /\ Len(fourth_downs) = origin.rows
                /\ \A i \in 1..Len(fourth_downs) : "SIDE_OF_FIELD" \in DOMAIN fourth_downs[i]

C6_Witness ==
    /\ pc = "loaded"
    /\ origin.client /\ origin.net = "ok" /\ origin.rows = 0
    /\ fourth_downs = get_fallback_data

\* C8: on the fallback dataset the key play is the quarter-3 record
\* "4th & 1 PUNT from own 41" (1 yard to go, score differential -12), and its
\* grade is TERRIBLE.
C8_FallbackKeyPlay ==
    (pc = "rendered" /\ FetchFailed) =>
        /\ Len(key_play) = 1
        /\ key_play[1].QUARTER = Num(3000)
        /\ SubSeq(key_play[1].PLAY_DESCRIPTION, 1, 24) = "4th & 1 PUNT from own 41"
        /\ key_play[1].YARDS_TO_GO = Num(1000)
        /\ key_play[1].SCORE_DIFFERENTIAL = -12
        /\ key_play[1].GRADE = TERRIBLE

C8_Witness ==
    /\ pc = "rendered"
    /\ origin.path = "query_raised"
    /\ Len(key_play) = 1
    /\ key_play[1].GRADE = TERRIBLE

C7_HistoryGrowsInPairs ==
    /\ [](/\ Len(messages) = 2 * calls
          /\ \A i \in 1..Len(messages) :
                messages[i].role = (IF i % 2 = 1 THEN "user" ELSE "assistant"))
    /\ [][SubSeq(messages', 1, Len(messages)) = messages]_vars
    /\ [][IsCall =>
            /\ Len(messages') = Len(messages) + 2
            /\ messages'[Len(messages) + 1] = [role |-> "user", content |-> last'.question]
            /\ messages'[Len(messages) + 2] = [role |-> "assistant", content |-> last'.ret]]_vars

C7_Witness ==
    /\ calls > QuestionLimit
    /\ last.kind = "limit"
    /\ Len(messages) = 2 * calls
    /\ messages[Len(messages)].content = LimitMessage
    /\ \E i, j, k \in 1..Len(messages) :
          /\ messages[i].content = Example1
          /\ messages[i + 1].content = "Error: Connection error."
          /\ messages[j].content = Example2
          /\ messages[j + 1].content = NotConfiguredMessage
          /\ messages[k].content = Typed

=============================================================================
